---------------------------- MODULE Spec2Model ----------------------------
(***************************************************************************)
(* Session, history and streaming core of the gemini-chatbot-proxy        *)
(* repository.  The repository holds several alternative server programs; *)
(* a process runs exactly one of them.  `variant` names the one loaded:   *)
(*                                                                         *)
(*   "store"  : src/chatHistory.js      (histories, addToHistory)          *)
(*   "stream" : src/unnamed/part_003    (streaming /chat with sessions)    *)
(*   "chat"   : src/unnamed/part_006    (/chat with conversationHistory)   *)
(*                                                                         *)
(* Strings that the code concatenates are modelled as sequences of         *)
(* characters, so that "" is <<>> and + is \o.                             *)
(***************************************************************************)
EXTENDS Integers, Sequences, FiniteSets, TLC

VARIABLES
  variant,              \* which server program this process runs
  runtime,              \* what the runtime does with a rejection nobody handles
  \* ---- src/chatHistory.js
  histories,            \* the Map sessionId -> [{role, parts}]
  appended,             \* history variable: every addToHistory call, per session id
  \* ---- express request handling (part_003 and part_006)
  pc,                   \* position of the handler serving each connection
  req,                  \* the request: client, cookie sent, body.message, serial number
  res,                  \* the response object of each connection
  connected,            \* whether the client still holds the connection
  submitted,            \* history variable: what the handler handed to the completion API
  upstream,             \* history variable: state of the completion call of each request
  nreq,                 \* number of requests accepted so far
  jar,                  \* each client's cookie jar (the sessionId cookie)
  ndisc,                \* history variable: connections the clients have dropped
  \* ---- src/unnamed/part_003
  sessions,             \* const sessions = {}
  uuid,                 \* number of uuidv4() tokens issued
  sessionId,            \* let sessionId, per request
  fullResponse,         \* let fullResponse, per request
  received,             \* history variable: chunks the upstream stream has yielded
  nchunks,              \* history variable: chunks yielded by all streams so far
  \* ---- src/unnamed/part_006
  conversationHistory,  \* let conversationHistory = []
  GEMINI_API_KEY,       \* whether process.env.GEMINI_API_KEY is set
  \* ---- src/server.js, lines 70-218
  transcript,           \* const transcript, per /voice request
  geminiReply,          \* const geminiReply, per /voice request
  failure,              \* history variable: the error an upstream call of the request threw
  sttConfig,            \* history variable: the config speechClient.recognize was given
  ttsVoice,             \* history variable: the voice ttsClient.synthesizeSpeech was given
  \* ---- src/client.js
  userInput,            \* the text field: its value, disabled and placeholder
  sendButton,           \* the send button: disabled
  voiceButton,          \* the voice button: disabled
  isRecording,          \* let isRecording
  mediaRecorder,        \* state of the MediaRecorder `mediaRecorder` refers to
  micRequests,          \* click handlers suspended at await getUserMedia
  stopEvents,           \* stop events of a recorder queued and not yet dispatched
  fetching,             \* fetches in flight, per path
  nfetch                \* history variable: fetches issued so far

storeVars  == <<histories, appended>>
httpVars   == <<pc, req, res, connected, submitted, upstream, nreq, jar, ndisc>>
streamVars == <<sessions, uuid, sessionId, fullResponse, received, nchunks>>
chatVars   == <<conversationHistory, GEMINI_API_KEY>>
voiceVars  == <<transcript, geminiReply, failure, sttConfig, ttsVoice>>
clientVars == <<userInput, sendButton, voiceButton, isRecording, mediaRecorder,
                micRequests, stopEvents, fetching, nfetch>>
vars       == <<variant, runtime, storeVars, httpVars, streamVars, chatVars, voiceVars,
                clientVars>>

---------------------------------------------------------------------------
(* Bounds of the model *)

MaxAppends    == 42     \* addToHistory calls over a run
MaxOffScript  == 1      \* of these, calls whose role breaks user/model alternation
MaxRequests   == 2      \* requests accepted by a server over a run
MaxChunks     == 2      \* chunks the upstream streams yield over a run
MaxDisconnects == 1     \* connections dropped by clients over a run
PriorExchanges == 10    \* exchanges answered before the run of a long conversation
MaxFetches == 3       \* fetches the page issues
MaxMicRequests == 2   \* getUserMedia calls pending at once

(* Program constants *)

HistoryLimit  == 20     \* chatHistory.js: if (history.length > 20)

SessionIds == {"s1", "s2"}            \* ids handed to chatHistory.js
Roles      == {"user", "model"}
Clients    == {"c1", "c2"}
Conns      == {1, 2}                  \* connections a server serves at once
Messages   == {<<"h">>}               \* req.body.message
Replies    == {<<1>>, <<1, 2>>}       \* result.response.text()
\* err.message of a failed completion call, as the set of phrases it includes
ErrorMessages == {{"API key not valid"}, {"404 Not Found", "models/"}, {"fetch failed"}}
EmptyMessage == <<>>                  \* req.body.message is "" or absent
NoCookie   == 0                       \* req.cookies.sessionId is undefined
StaleToken == 99                      \* a sessionId cookie no entry of this process matches

Min(a, b) == IF a < b THEN a ELSE b

RECURSIVE Concat(_)
Concat(ss) == IF ss = <<>> THEN <<>> ELSE Head(ss) \o Concat(Tail(ss))

Last(s) == s[Len(s)]


---------------------------------------------------------------------------
(* src/chatHistory.js *)

\* { role, parts: [{ text }] }
Turn(role, text) == [role |-> role, parts |-> <<[text |-> text]>>]

\* histories after getHistory(sessionId): an absent id gets an empty array
GetHistoryMap(h, sid) == IF sid \in DOMAIN h THEN h ELSE h @@ (sid :> <<>>)

\* mutant of PushBounded: pop() where the code has shift()
PushBoundedPops(history, x) ==
  LET pushed == Append(history, x)
  IN  IF Len(pushed) > HistoryLimit THEN SubSeq(pushed, 1, HistoryLimit) ELSE pushed

\* history.push(x); if (history.length > 20) history.shift();
PushBounded(history, x) ==
  LET pushed == Append(history, x)
  IN  IF Len(pushed) > HistoryLimit THEN Tail(pushed) ELSE pushed

\* histories after addToHistory(sessionId, role, text)
AddToHistoryMap(h, sid, role, text) ==
  LET m == GetHistoryMap(h, sid)
  IN  [m EXCEPT ![sid] = PushBounded(m[sid], Turn(role, text))]

\* The callers of the store: the n-th turn of a conversation is a user turn
\* when n is odd and a model turn when n is even, and its text is its number.
ScriptRole(n) == IF n % 2 = 1 THEN "user" ELSE "model"

OffScript(log) ==
  Len(SelectSeq([i \in 1..Len(log) |-> [i |-> i, role |-> log[i].role]],
                LAMBDA e : e.role # ScriptRole(e.i)))

TotalAppends   == Len(appended["s1"]) + Len(appended["s2"])
TotalOffScript == OffScript(appended["s1"]) + OffScript(appended["s2"])

GetHistory(sid) ==
  /\ variant = "store"
  /\ histories' = GetHistoryMap(histories, sid)
  /\ UNCHANGED <<variant, runtime, clientVars, voiceVars, appended, httpVars, streamVars, chatVars>>

AddToHistory(sid, role) ==
  LET n == Len(appended[sid]) + 1
  IN  /\ variant = "store"
      /\ TotalAppends < MaxAppends
      /\ role = ScriptRole(n) \/ TotalOffScript < MaxOffScript
      /\ histories' = AddToHistoryMap(histories, sid, role, n)
      /\ appended' = [appended EXCEPT ![sid] = Append(@, Turn(role, n))]
      /\ UNCHANGED <<variant, runtime, clientVars, voiceVars, httpVars, streamVars, chatVars>>

NextStore ==
  \/ \E sid \in SessionIds : GetHistory(sid)
  \/ \E sid \in SessionIds, role \in Roles : AddToHistory(sid, role)

---------------------------------------------------------------------------
(* Express: the response object, and what becomes of an exception that     *)
(* leaves an async handler                                                  *)

\* the options of res.cookie(name, value, options); a cookie without maxAge
\* (and without expires) lasts until the browser session ends
NoMaxAge  == -1
DayMs     == 24 * 60 * 60 * 1000      \* part_003: maxAge: 24 * 60 * 60 * 1000
NoOptions == [httpOnly |-> FALSE, sameSite |-> "unset", maxAge |-> NoMaxAge]

FreshRes == [headersSent |-> FALSE, statusCode |-> 200, cookie |-> NoCookie,
             cookieOptions |-> NoOptions,
             writes |-> <<>>, body |-> [kind |-> "none"], finished |-> FALSE]

\* res.cookie("sessionId", value, options)
ResCookie(rs, value, options) == [rs EXCEPT !.cookie = value, !.cookieOptions = options]

\* the body given to res.send(text) and to res.json(object)
TextBody(text) == [kind |-> "text", text |-> text]
JsonBody(obj)  == [kind |-> "json", json |-> obj]
NoReq    == [client |-> "c1", cookie |-> NoCookie, message |-> <<>>, id |-> 0]

\* res.write(data): the first write puts the status line and the headers on
\* the wire; a write to a connection the client has left is not an error
ResWrite(rs, data) == [rs EXCEPT !.headersSent = TRUE, !.writes = Append(@, data)]

\* res.end()
ResEnd(rs) == [rs EXCEPT !.headersSent = TRUE, !.finished = TRUE]

\* res.status(code).send(body) and res.status(code).json(body), headers not yet sent
ResSend(rs, code, body) ==
  [rs EXCEPT !.headersSent = TRUE, !.statusCode = code, !.body = body,
             !.finished = TRUE]

\* res.status(code) once the headers are out: only the field changes; the
\* send() that follows throws ERR_HTTP_HEADERS_SENT
ResStatusLate(rs, code) == [rs EXCEPT !.statusCode = code]

\* The client stores the sessionId cookie when the headers reach it.
JarAfter(r, rs) ==
  IF ~res[r].headersSent /\ rs.headersSent /\ connected[r] /\ rs.cookie # NoCookie
  THEN [jar EXCEPT ![req[r].client] = rs.cookie]
  ELSE jar

\* an upstream call's error: the numeric code of a gRPC error (the Gemini SDK's
\* errors have none), the phrases its message includes, and, as history
\* fields, the call that threw and the kind of failure it is
NoCode    == 0
Failure(stage, kind, code, message) ==
  [stage |-> stage, kind |-> kind, code |-> code, message |-> message]
NoFailure == Failure("none", "none", NoCode, {})

\* no call of the speech client was made for the request
NoCall    == [languageCode |-> "none"]

\* An exception that leaves the async handler is a rejected promise nobody
\* awaits.  The Dockerfile builds on node:20 and installs whatever express
\* package.json allows, so the build produces one of:
\*   "exit"         express 4: the rejection is unhandled and node 20 exits;
\*                  every connection is reset and nothing is served any more
\*   "errorHandler" express 5: the router passes the rejection to the default
\*                  error handler, which answers 500, or destroys the socket
\*                  when the headers are already out
Outcomes == {"exit", "errorHandler"}

Free(r)     == pc[r] \in {"idle", "done", "destroyed"}
InFlight(r) == pc[r] \in {"await_send", "streaming", "hung"}
Exited      == \E r \in Conns : pc[r] = "reset"

\* a new request is served on the lowest connection that is free
Accepts(r)  == Free(r) /\ \A q \in Conns : q < r => ~Free(q)

\* chunk.text() of the n-th chunk of a stream: empty, or a text of its own
Fragments(n) == {<<>>, <<n>>}

PcAfterEscape(r, outcome) ==
  CASE outcome = "exit" ->
         [q \in Conns |-> IF q = r \/ InFlight(q) THEN "reset" ELSE pc[q]]
    [] outcome = "errorHandler" ->
         [pc EXCEPT ![r] = IF res[r].headersSent THEN "destroyed" ELSE "done"]

ConnectedAfterEscape(r, outcome) ==
  CASE outcome = "exit" ->
         [q \in Conns |-> IF q = r \/ InFlight(q) THEN FALSE ELSE connected[q]]
    [] outcome = "errorHandler" ->
         [connected EXCEPT ![r] = IF res[r].headersSent THEN FALSE ELSE @]

\* the client closes the connection while its request is being served
ClientDisconnect(r) ==
  /\ variant \in {"stream", "chat"}
  /\ InFlight(r)
  /\ connected[r]
  /\ ndisc < MaxDisconnects
  /\ ndisc' = ndisc + 1
  /\ connected' = [connected EXCEPT ![r] = FALSE]
  /\ UNCHANGED <<variant, runtime, clientVars, voiceVars, storeVars, streamVars, chatVars,
                 pc, req, res, submitted, upstream, nreq, jar>>

---------------------------------------------------------------------------
(* src/chatHistory.js: getSessionId(req, res).  No handler of the          *)
(* repository calls it; the handler around it is taken to answer the       *)
(* request after the call.                                                  *)

\* line 10: { httpOnly: true, sameSite: "lax" }
StoreCookieOptions == [httpOnly |-> TRUE, sameSite |-> "lax", maxAge |-> NoMaxAge]

\* mutant of ResolvedId: a new id whatever the request carries
ResolvedIdAlwaysNew(cookie, fresh) == fresh

\* lines 7-9 and 12: the id getSessionId returns
ResolvedId(cookie, fresh) == IF cookie = NoCookie THEN fresh ELSE cookie

\* lines 8-11: the response after getSessionId
ResAfterResolve(rs, cookie, fresh) ==
  IF cookie = NoCookie THEN ResCookie(rs, fresh, StoreCookieOptions) ELSE rs

\* lines 6-13
GetSessionId(r, c) ==
  LET cookie == jar[c]
      fresh  == uuid + 1
      id     == nreq + 1
      sid    == ResolvedId(cookie, fresh)
  IN  /\ variant = "identity"
      /\ Accepts(r)
      /\ nreq < MaxRequests
      /\ nreq' = id
      /\ req' = [req EXCEPT ![r] =
                   [client |-> c, cookie |-> cookie, message |-> EmptyMessage, id |-> id]]
      /\ sessionId' = [sessionId EXCEPT ![r] = sid]
      /\ uuid' = IF cookie = NoCookie THEN fresh ELSE uuid
      /\ res' = [res EXCEPT ![r] = ResAfterResolve(FreshRes, cookie, fresh)]
      /\ connected' = [connected EXCEPT ![r] = TRUE]
      /\ pc' = [pc EXCEPT ![r] = "resolved"]
      /\ UNCHANGED <<variant, runtime, clientVars, voiceVars, storeVars, chatVars, sessions,
                     fullResponse, received, nchunks, submitted, upstream, jar, ndisc>>

\* the handler that called getSessionId answers
CallerResponds(r) ==
  LET rs == ResEnd(res[r])
  IN  /\ variant = "identity"
      /\ pc[r] = "resolved"
      /\ res' = [res EXCEPT ![r] = rs]
      /\ jar' = JarAfter(r, rs)
      /\ pc' = [pc EXCEPT ![r] = "done"]
      /\ UNCHANGED <<variant, runtime, clientVars, voiceVars, storeVars, chatVars, streamVars,
                     req, connected, submitted, upstream, nreq, ndisc>>

NextIdentity ==
  \/ \E r \in Conns, c \in Clients : GetSessionId(r, c)
  \/ \E r \in Conns : CallerResponds(r)

---------------------------------------------------------------------------
(* src/unnamed/part_003: app.post("/chat"), streaming with a history per   *)
(* session                                                                  *)

\* { role, content }; req and client are history fields: the request that
\* pushed the turn and the client that sent that request
Msg(role, content, id, c) ==
  [role |-> role, content |-> content, req |-> id, client |-> c]

\* `data: ${JSON.stringify({ text })}\n\n`
SseEvent(text) == [data |-> [text |-> text]]

\* lines 26-30: a request without the cookie gets a new id and an empty array
SessionsAfterResolve(s, cookie, fresh) ==
  IF cookie = NoCookie THEN s @@ (fresh :> <<>>) ELSE s

\* line 34: history.push({ role: "user", content: userMessage })
PushUser(history, msg, id, c) == Append(history, Msg("user", msg, id, c))

\* mutant of HistoryAfterChunk: the buffer is committed as it grows
HistoryAfterChunkCommits(history, buffer, id, c) ==
  Append(history, Msg("model", buffer, id, c))

\* lines 46-52, one chunk: the loop body does not touch `history`
HistoryAfterChunk(history, buffer, id, c) == history

\* line 54: history.push({ role: "model", content: fullResponse })
HistoryAfterEnd(history, buffer, id, c) == Append(history, Msg("model", buffer, id, c))

\* mutant of HistoryAfterCatch: the catch block commits the partial buffer
HistoryAfterCatchCommits(history, buffer, id, c) ==
  Append(history, Msg("model", buffer, id, c))

\* lines 56-59: the catch block does not touch `history`
HistoryAfterCatch(history, buffer, id, c) == history

\* mutant of BufferAfterChunk: = where the code has +=
BufferOverwritten(buffer, text) == IF text # <<>> THEN text ELSE buffer

\* mutant of WriteChunk: the test of line 48 is missing
WriteChunkAlways(rs, text) == ResWrite(rs, SseEvent(text))

\* lines 47-51: if (text) { fullResponse += text; res.write(...) }
BufferAfterChunk(buffer, text) == IF text # <<>> THEN buffer \o text ELSE buffer

WriteChunk(rs, text) == IF text # <<>> THEN ResWrite(rs, SseEvent(text)) ELSE rs

\* line 28: { httpOnly: true, maxAge: 24 * 60 * 60 * 1000 }
StreamCookieOptions == [httpOnly |-> TRUE, sameSite |-> "unset", maxAge |-> DayMs]

\* lines 23-38, up to the await, for a request whose session has an array
StreamChat(r, c, msg) ==
  LET cookie == jar[c]
      sid    == IF cookie = NoCookie THEN uuid + 1 ELSE cookie
      store  == SessionsAfterResolve(sessions, cookie, uuid + 1)
      id     == nreq + 1
  IN  /\ variant = "stream"
      /\ ~Exited
      /\ Accepts(r)
      /\ nreq < MaxRequests
      /\ sid \in DOMAIN store
      /\ sessions' = [store EXCEPT ![sid] = PushUser(@, msg, id, c)]
      /\ uuid' = IF cookie = NoCookie THEN uuid + 1 ELSE uuid
      /\ sessionId' = [sessionId EXCEPT ![r] = sid]
      /\ fullResponse' = [fullResponse EXCEPT ![r] = <<>>]
      /\ received' = [received EXCEPT ![r] = <<>>]
      /\ pc' = [pc EXCEPT ![r] = "await_send"]
      /\ req' = [req EXCEPT ![r] =
                   [client |-> c, cookie |-> cookie, message |-> msg, id |-> id]]
      /\ res' = [res EXCEPT ![r] =
                   IF cookie = NoCookie
                   THEN ResCookie(FreshRes, sid, StreamCookieOptions)
                   ELSE FreshRes]
      /\ connected' = [connected EXCEPT ![r] = TRUE]
      /\ submitted' = [submitted EXCEPT ![r] =
                         [history |-> sessions'[sid], message |-> msg]]
      /\ upstream' = [upstream EXCEPT ![r] = "open"]
      /\ nreq' = id
      /\ UNCHANGED <<variant, runtime, clientVars, voiceVars, storeVars, chatVars, jar, nchunks, ndisc>>

\* lines 23-34 for a request whose cookie names no entry of `sessions`:
\* history is undefined and history.push throws outside the try
StreamChatNoHistory(r, c, msg) ==
  LET cookie == jar[c]
      id     == nreq + 1
      outcome == runtime
  IN  /\ variant = "stream"
      /\ ~Exited
      /\ Accepts(r)
      /\ nreq < MaxRequests
      /\ cookie # NoCookie
      /\ cookie \notin DOMAIN sessions
      /\ sessionId' = [sessionId EXCEPT ![r] = cookie]
      /\ fullResponse' = [fullResponse EXCEPT ![r] = <<>>]
      /\ received' = [received EXCEPT ![r] = <<>>]
      /\ req' = [req EXCEPT ![r] =
                   [client |-> c, cookie |-> cookie, message |-> msg, id |-> id]]
      /\ res' = [res EXCEPT ![r] =
                   IF outcome = "errorHandler"
                   THEN ResSend(FreshRes, 500, TextBody("Internal Server Error"))
                   ELSE FreshRes]
      /\ pc' = [PcAfterEscape(r, outcome) EXCEPT ![r] =
                   IF outcome = "errorHandler" THEN "done" ELSE @]
      /\ connected' = [ConnectedAfterEscape(r, outcome) EXCEPT ![r] =
                          outcome # "exit"]
      /\ submitted' = [submitted EXCEPT ![r] = <<>>]
      /\ upstream' = [upstream EXCEPT ![r] = "none"]
      /\ nreq' = id
      /\ UNCHANGED <<variant, runtime, clientVars, voiceVars, storeVars, chatVars, jar, sessions, uuid, nchunks, ndisc>>

\* line 38 resolves; lines 40-44
StreamSendResolves(r) ==
  /\ variant = "stream"
  /\ pc[r] = "await_send"
  /\ pc' = [pc EXCEPT ![r] = "streaming"]
  /\ fullResponse' = [fullResponse EXCEPT ![r] = <<>>]
  /\ UNCHANGED <<variant, runtime, clientVars, voiceVars, storeVars, chatVars, sessions, uuid, sessionId, received,
                 nchunks, req, res, connected, submitted, upstream, nreq, jar, ndisc>>

\* line 37 throws or line 38 rejects; lines 56-59 with no header sent yet
StreamSendRejects(r) ==
  LET sid == sessionId[r]
      rs  == ResSend(res[r], 500, TextBody("Error communicating with Gemini API"))
  IN  /\ variant = "stream"
      /\ pc[r] = "await_send"
      /\ sessions' = [sessions EXCEPT ![sid] =
                        HistoryAfterCatch(@, fullResponse[r], req[r].id, req[r].client)]
      /\ res' = [res EXCEPT ![r] = rs]
      /\ jar' = JarAfter(r, rs)
      /\ pc' = [pc EXCEPT ![r] = "done"]
      /\ upstream' = [upstream EXCEPT ![r] = "failed"]
      /\ UNCHANGED <<variant, runtime, clientVars, voiceVars, storeVars, chatVars, uuid, sessionId, fullResponse,
                     received, nchunks, req, connected, submitted, nreq, ndisc>>

\* lines 46-52: the stream yields one chunk
StreamChunk(r, text) ==
  LET sid == sessionId[r]
      rs  == WriteChunk(res[r], text)
  IN  /\ variant = "stream"
      /\ pc[r] = "streaming"
      /\ nchunks < MaxChunks
      /\ text \in Fragments(Len(received[r]) + 1)
      /\ nchunks' = nchunks + 1
      /\ received' = [received EXCEPT ![r] = Append(@, text)]
      /\ fullResponse' = [fullResponse EXCEPT ![r] = BufferAfterChunk(@, text)]
      /\ res' = [res EXCEPT ![r] = rs]
      /\ jar' = JarAfter(r, rs)
      /\ sessions' = [sessions EXCEPT ![sid] =
                        HistoryAfterChunk(@, fullResponse'[r], req[r].id, req[r].client)]
      /\ UNCHANGED <<variant, runtime, clientVars, voiceVars, storeVars, chatVars, uuid, sessionId,
                     pc, req, connected, submitted, upstream, nreq, ndisc>>

\* the stream signals its end; lines 54-55
StreamEnd(r) ==
  LET sid == sessionId[r]
      rs  == ResEnd(res[r])
  IN  /\ variant = "stream"
      /\ pc[r] = "streaming"
      /\ sessions' = [sessions EXCEPT ![sid] =
                        HistoryAfterEnd(@, fullResponse[r], req[r].id, req[r].client)]
      /\ res' = [res EXCEPT ![r] = rs]
      /\ jar' = JarAfter(r, rs)
      /\ pc' = [pc EXCEPT ![r] = "done"]
      /\ upstream' = [upstream EXCEPT ![r] = "ended"]
      /\ UNCHANGED <<variant, runtime, clientVars, voiceVars, storeVars, chatVars, uuid, sessionId, fullResponse,
                     received, nchunks, req, connected, submitted, nreq, ndisc>>

\* the stream (or chunk.text()) throws before anything was written;
\* lines 56-59 send the 500
StreamErrorBeforeWrite(r) ==
  LET sid == sessionId[r]
      rs  == ResSend(res[r], 500, TextBody("Error communicating with Gemini API"))
  IN  /\ variant = "stream"
      /\ pc[r] = "streaming"
      /\ ~res[r].headersSent
      /\ sessions' = [sessions EXCEPT ![sid] =
                        HistoryAfterCatch(@, fullResponse[r], req[r].id, req[r].client)]
      /\ res' = [res EXCEPT ![r] = rs]
      /\ jar' = JarAfter(r, rs)
      /\ pc' = [pc EXCEPT ![r] = "done"]
      /\ upstream' = [upstream EXCEPT ![r] = "failed"]
      /\ UNCHANGED <<variant, runtime, clientVars, voiceVars, storeVars, chatVars, uuid, sessionId, fullResponse,
                     received, nchunks, req, connected, submitted, nreq, ndisc>>

\* the stream (or chunk.text()) throws after a res.write; in lines 56-59
\* res.status(500) is too late and send() throws inside the catch block
StreamErrorAfterWrite(r) ==
  LET sid == sessionId[r]
      outcome == runtime
  IN  /\ variant = "stream"
      /\ pc[r] = "streaming"
      /\ res[r].headersSent
      /\ sessions' = [sessions EXCEPT ![sid] =
                        HistoryAfterCatch(@, fullResponse[r], req[r].id, req[r].client)]
      /\ res' = [res EXCEPT ![r] = ResStatusLate(@, 500)]
      /\ pc' = PcAfterEscape(r, outcome)
      /\ connected' = ConnectedAfterEscape(r, outcome)
      /\ upstream' = [upstream EXCEPT ![r] = "failed"]
      /\ UNCHANGED <<variant, runtime, clientVars, voiceVars, storeVars, chatVars, uuid, sessionId, fullResponse,
                     received, nchunks, req, submitted, nreq, jar, ndisc>>

NextStream ==
  \/ \E r \in Conns, c \in Clients, msg \in Messages : StreamChat(r, c, msg)
  \/ \E r \in Conns, c \in Clients, msg \in Messages : StreamChatNoHistory(r, c, msg)
  \/ \E r \in Conns : StreamSendResolves(r)
  \/ \E r \in Conns : StreamSendRejects(r)
  \/ \E r \in Conns : \E text \in Fragments(Len(received[r]) + 1) : StreamChunk(r, text)
  \/ \E r \in Conns : StreamEnd(r)
  \/ \E r \in Conns : StreamErrorBeforeWrite(r)
  \/ \E r \in Conns : StreamErrorAfterWrite(r)
  \/ \E r \in Conns : ClientDisconnect(r)

---------------------------------------------------------------------------
(* src/unnamed/part_006: app.post('/chat') with one conversationHistory    *)

\* { role, parts: [{ text }] }; req and client are history fields
HistTurn(role, text, id, c) ==
  [role |-> role, parts |-> <<[text |-> text]>>, req |-> id, client |-> c]

\* err.message.includes(phrase)
Includes(message, phrase) == phrase \in message

\* line 56: conversationHistory.push({ role: "user", ... })
HistoryAfterUser(history, msg, id, c) == Append(history, HistTurn("user", msg, id, c))

\* line 68: conversationHistory.push({ role: "model", ... })
HistoryAfterReply(history, text, id, c) == Append(history, HistTurn("model", text, id, c))

\* mutant of HistoryAfterFailure: the catch block takes the user turn back
HistoryAfterFailureRollsBack(history, id, c) == SubSeq(history, 1, Len(history) - 1)

\* lines 71-79: the catch block does not touch conversationHistory
HistoryAfterFailure(history, id, c) == history

\* lines 73-78: the response of the catch block
ChatErrorResponse(rs, message) ==
  IF Includes(message, "API key not valid")
  THEN ResSend(rs, 401, JsonBody([error |-> <<"Invalid Gemini API Key.">>]))
  ELSE IF Includes(message, "404 Not Found") /\ Includes(message, "models/")
  THEN ResSend(rs, 500, JsonBody([error |-> <<"Gemini model access error: ", message>>]))
  ELSE ResSend(rs, 500,
               JsonBody([error |-> <<"Failed to get response from LEARNIAMO: ", message>>]))

\* mutant of KeyUnset: the check never fires
KeyUnsetNever(key) == FALSE

\* line 48: !GEMINI_API_KEY
KeyUnset(key) == ~key

\* lines 43-65, up to the await
ChatPost(r, c, msg) ==
  LET id == nreq + 1
  IN  /\ variant = "chat"
      /\ Accepts(r)
      /\ nreq < MaxRequests
      /\ nreq' = id
      /\ req' = [req EXCEPT ![r] =
                   [client |-> c, cookie |-> NoCookie, message |-> msg, id |-> id]]
      /\ connected' = [connected EXCEPT ![r] = TRUE]
      /\ IF KeyUnset(GEMINI_API_KEY)
         THEN /\ res' = [res EXCEPT ![r] =
                    ResSend(FreshRes, 500,
                      JsonBody([error |-> <<"Server configuration error: Gemini API key missing.">>]))]
              /\ pc' = [pc EXCEPT ![r] = "done"]
              /\ upstream' = [upstream EXCEPT ![r] = "none"]
              /\ submitted' = [submitted EXCEPT ![r] = <<>>]
              /\ UNCHANGED conversationHistory
         ELSE /\ conversationHistory' = HistoryAfterUser(conversationHistory, msg, id, c)
              /\ res' = [res EXCEPT ![r] = FreshRes]
              /\ pc' = [pc EXCEPT ![r] = "await_send"]
              /\ upstream' = [upstream EXCEPT ![r] = "open"]
              /\ submitted' = [submitted EXCEPT ![r] =
                                 [history |-> conversationHistory', message |-> msg]]
      /\ UNCHANGED <<variant, runtime, clientVars, voiceVars, storeVars, streamVars, GEMINI_API_KEY, jar, ndisc>>

\* line 65 resolves; lines 66-70
ChatReply(r, text) ==
  /\ variant = "chat"
  /\ pc[r] = "await_send"
  /\ conversationHistory' =
       HistoryAfterReply(conversationHistory, text, req[r].id, req[r].client)
  /\ res' = [res EXCEPT ![r] = ResSend(@, 200, JsonBody([reply |-> text]))]
  /\ pc' = [pc EXCEPT ![r] = "done"]
  /\ upstream' = [upstream EXCEPT ![r] = "ended"]
  /\ UNCHANGED <<variant, runtime, clientVars, voiceVars, storeVars, streamVars, GEMINI_API_KEY,
                 req, connected, submitted, nreq, jar, ndisc>>

\* line 65 rejects, or line 66 throws; lines 71-79
ChatFail(r, message) ==
  /\ variant = "chat"
  /\ pc[r] = "await_send"
  /\ conversationHistory' =
       HistoryAfterFailure(conversationHistory, req[r].id, req[r].client)
  /\ res' = [res EXCEPT ![r] = ChatErrorResponse(@, message)]
  /\ pc' = [pc EXCEPT ![r] = "done"]
  /\ upstream' = [upstream EXCEPT ![r] = "failed"]
  /\ UNCHANGED <<variant, runtime, clientVars, voiceVars, storeVars, streamVars, GEMINI_API_KEY,
                 req, connected, submitted, nreq, jar, ndisc>>

NextChat ==
  \/ \E r \in Conns, c \in Clients, msg \in Messages : ChatPost(r, c, msg)
  \/ \E r \in Conns, text \in Replies : ChatReply(r, text)
  \/ \E r \in Conns, message \in ErrorMessages : ChatFail(r, message)
  \/ \E r \in Conns : ClientDisconnect(r)

---------------------------------------------------------------------------
(* src/server.js, lines 70-218: app.post('/chat') and app.post('/voice'),  *)
(* both without a history                                                   *)

\* errors of geminiModel.generateContent: the SDK's errors carry no numeric code
GeminiErrors ==
  { [kind |-> "auth",        code |-> NoCode, message |-> {"API key not valid"}],
    [kind |-> "throttled",   code |-> NoCode, message |-> {"quota"}],
    [kind |-> "unavailable", code |-> NoCode, message |-> {"fetch failed"}],
    [kind |-> "unavailable", code |-> NoCode, message |-> {"overloaded"}] }

\* errors of speechClient.recognize and ttsClient.synthesizeSpeech: gRPC status
\* codes 7 PERMISSION_DENIED, 3 INVALID_ARGUMENT, 14 UNAVAILABLE
CloudErrors ==
  { [kind |-> "auth",        code |-> 7,  message |-> {"PERMISSION_DENIED"}],
    [kind |-> "invalid",     code |-> 3,  message |-> {"INVALID_ARGUMENT"}],
    [kind |-> "unavailable", code |-> 14, message |-> {"UNAVAILABLE"}] }

\* sttResponse.results, each result by its alternatives[0].transcript
Recognitions == { <<>>, << <<"h">> >>, << <<"h">>, <<"i">> >> }

\* ttsResponse.audioContent.toString('base64')
Audios == { <<"mp3">> }

\* results.map(r => r.alternatives[0].transcript).join('\n')
RECURSIVE JoinLines(_)
JoinLines(results) ==
  IF results = <<>> THEN <<>>
  ELSE IF Len(results) = 1 THEN Head(results)
  ELSE Head(results) \o <<"\n">> \o JoinLines(Tail(results))

\* mutant of NoTranscript: the test of line 174 never holds
NoTranscriptNever(text) == FALSE

\* line 174: if (!transcript)
NoTranscript(text) == text = <<>>

\* mutant of NoTranscriptResponse: the body has the shape of an error body
NoTranscriptResponseAsError(rs) ==
  ResSend(rs, 400, JsonBody([error |-> <<"Could not understand the audio. Please try again.">>]))

\* line 176
NoTranscriptResponse(rs) ==
  ResSend(rs, 400, JsonBody([reply |-> <<"Could not understand the audio. Please try again.">>]))

\* lines 141-147: the response of the catch block of /chat
ServerChatErrorResponse(rs, err) ==
  IF Includes(err.message, "API key not valid")
  THEN ResSend(rs, 401, JsonBody([error |-> <<"Invalid Gemini API Key.">>]))
  ELSE IF Includes(err.message, "quota")
  THEN ResSend(rs, 429, JsonBody([error |-> <<"Gemini API quota exceeded.">>]))
  ELSE ResSend(rs, 500,
               JsonBody([error |-> <<"Failed to get Gemini response: ", err.message>>]))

\* lines 201-209: the response of the catch block of /voice
VoiceErrorResponse(rs, err) ==
  IF err.code = 7 \/ err.code = 10
  THEN ResSend(rs, 500, JsonBody([error |->
         <<"Authentication or permission error with Google Cloud APIs.">>]))
  ELSE IF err.code = 3
  THEN ResSend(rs, 400, JsonBody([error |->
         <<"Invalid audio format or configuration sent to Speech-to-Text.">>]))
  ELSE IF Includes(err.message, "API key not valid")
  THEN ResSend(rs, 401, JsonBody([error |-> <<"Invalid Gemini API Key.">>]))
  ELSE ResSend(rs, 500,
               JsonBody([error |-> <<"Failed to process voice request: ", err.message>>]))

ServerReq(path, msg, hasFile, id) ==
  [client |-> "c1", cookie |-> NoCookie, message |-> msg, id |-> id,
   path |-> path, file |-> hasFile]

\* lines 165-170: the config of the recognize call
ServerSttConfig == [encoding |-> "WEBM_OPUS", sampleRateHertz |-> 48000,
                    languageCode |-> "en-US", model |-> "default"]

\* line 190: the voice of the synthesizeSpeech call
ServerTtsVoice == [languageCode |-> "en-US", ssmlGender |-> "NEUTRAL"]

\* what every request of this server starts from
ServerAccept(r, rq) ==
  /\ variant = "server"
  /\ Accepts(r)
  /\ nreq < MaxRequests
  /\ nreq' = rq.id
  /\ req' = [req EXCEPT ![r] = rq]
  /\ connected' = [connected EXCEPT ![r] = TRUE]
  /\ transcript' = [transcript EXCEPT ![r] = <<>>]
  /\ geminiReply' = [geminiReply EXCEPT ![r] = <<>>]
  /\ failure' = [failure EXCEPT ![r] = NoFailure]
  /\ sttConfig' = [sttConfig EXCEPT ![r] =
                     IF rq.path = "/voice" /\ rq.file THEN ServerSttConfig ELSE NoCall]
  /\ ttsVoice' = [ttsVoice EXCEPT ![r] = NoCall]
  /\ UNCHANGED <<variant, runtime, clientVars, storeVars, streamVars, chatVars, jar, ndisc>>

\* lines 124-132, up to the await
ServerChat(r, msg) ==
  /\ ServerAccept(r, ServerReq("/chat", msg, FALSE, nreq + 1))
  /\ IF msg = EmptyMessage
     THEN /\ res' = [res EXCEPT ![r] =
                ResSend(FreshRes, 400, JsonBody([error |-> <<"Message is required.">>]))]
          /\ pc' = [pc EXCEPT ![r] = "done"]
          /\ upstream' = [upstream EXCEPT ![r] = "none"]
          /\ submitted' = [submitted EXCEPT ![r] = <<>>]
     ELSE /\ res' = [res EXCEPT ![r] = FreshRes]
          /\ pc' = [pc EXCEPT ![r] = "await_generate"]
          /\ upstream' = [upstream EXCEPT ![r] = "open"]
          /\ submitted' = [submitted EXCEPT ![r] = [history |-> <<>>, message |-> msg]]

\* line 132 resolves; lines 133-136
ServerChatReplies(r, text) ==
  /\ variant = "server"
  /\ pc[r] = "await_generate" /\ req[r].path = "/chat"
  /\ res' = [res EXCEPT ![r] = ResSend(@, 200, JsonBody([reply |-> text]))]
  /\ pc' = [pc EXCEPT ![r] = "done"]
  /\ upstream' = [upstream EXCEPT ![r] = "ended"]
  /\ UNCHANGED <<variant, runtime, clientVars, voiceVars, storeVars, streamVars, chatVars,
                 req, connected, submitted, nreq, jar, ndisc>>

\* line 132 rejects; lines 138-148
ServerChatFails(r, err) ==
  /\ variant = "server"
  /\ pc[r] = "await_generate" /\ req[r].path = "/chat"
  /\ failure' = [failure EXCEPT ![r] =
                   Failure("completion", err.kind, err.code, err.message)]
  /\ res' = [res EXCEPT ![r] = ServerChatErrorResponse(@, err)]
  /\ pc' = [pc EXCEPT ![r] = "done"]
  /\ upstream' = [upstream EXCEPT ![r] = "failed"]
  /\ UNCHANGED <<variant, runtime, clientVars, transcript, geminiReply, sttConfig, ttsVoice,
                 storeVars, streamVars,
                 chatVars, req, connected, submitted, nreq, jar, ndisc>>

\* lines 152-171, up to the await
Voice(r, hasFile) ==
  /\ ServerAccept(r, ServerReq("/voice", EmptyMessage, hasFile, nreq + 1))
  /\ upstream' = [upstream EXCEPT ![r] = "none"]
  /\ submitted' = [submitted EXCEPT ![r] = <<>>]
  /\ IF ~hasFile
     THEN /\ res' = [res EXCEPT ![r] =
                ResSend(FreshRes, 400, JsonBody([error |-> <<"Audio file is required.">>]))]
          /\ pc' = [pc EXCEPT ![r] = "done"]
     ELSE /\ res' = [res EXCEPT ![r] = FreshRes]
          /\ pc' = [pc EXCEPT ![r] = "await_recognize"]

\* line 163 resolves; lines 173-182, up to the await
VoiceRecognized(r, results) ==
  LET text == JoinLines(results)
  IN  /\ variant = "server"
      /\ pc[r] = "await_recognize"
      /\ transcript' = [transcript EXCEPT ![r] = text]
      /\ IF NoTranscript(text)
         THEN /\ res' = [res EXCEPT ![r] = NoTranscriptResponse(@)]
              /\ pc' = [pc EXCEPT ![r] = "done"]
              /\ UNCHANGED <<upstream, submitted>>
         ELSE /\ pc' = [pc EXCEPT ![r] = "await_generate"]
              /\ upstream' = [upstream EXCEPT ![r] = "open"]
              /\ submitted' = [submitted EXCEPT ![r] =
                                 [history |-> <<>>, message |-> text]]
              /\ UNCHANGED res
      /\ UNCHANGED <<variant, runtime, clientVars, geminiReply, failure, sttConfig, ttsVoice,
                     storeVars, streamVars,
                     chatVars, req, connected, nreq, jar, ndisc>>

\* line 163 rejects, or line 173 throws; lines 198-210
VoiceRecognizeFails(r, err) ==
  /\ variant = "server"
  /\ pc[r] = "await_recognize"
  /\ failure' = [failure EXCEPT ![r] =
                   Failure("transcription", err.kind, err.code, err.message)]
  /\ res' = [res EXCEPT ![r] = VoiceErrorResponse(@, err)]
  /\ pc' = [pc EXCEPT ![r] = "done"]
  /\ UNCHANGED <<variant, runtime, clientVars, transcript, geminiReply, sttConfig, ttsVoice,
                 storeVars, streamVars,
                 chatVars, req, connected, submitted, upstream, nreq, jar, ndisc>>

\* line 182 resolves; lines 183-193, up to the await
VoiceGenerated(r, text) ==
  /\ variant = "server"
  /\ pc[r] = "await_generate" /\ req[r].path = "/voice"
  /\ geminiReply' = [geminiReply EXCEPT ![r] = text]
  /\ pc' = [pc EXCEPT ![r] = "await_synthesize"]
  /\ upstream' = [upstream EXCEPT ![r] = "ended"]
  /\ ttsVoice' = [ttsVoice EXCEPT ![r] = ServerTtsVoice]
  /\ UNCHANGED <<variant, runtime, clientVars, transcript, failure, sttConfig, storeVars, streamVars,
                 chatVars, req, res, connected, submitted, nreq, jar, ndisc>>

\* line 182 rejects, or line 183 throws; lines 198-210
VoiceGenerateFails(r, err) ==
  /\ variant = "server"
  /\ pc[r] = "await_generate" /\ req[r].path = "/voice"
  /\ failure' = [failure EXCEPT ![r] =
                   Failure("completion", err.kind, err.code, err.message)]
  /\ res' = [res EXCEPT ![r] = VoiceErrorResponse(@, err)]
  /\ pc' = [pc EXCEPT ![r] = "done"]
  /\ upstream' = [upstream EXCEPT ![r] = "failed"]
  /\ UNCHANGED <<variant, runtime, clientVars, transcript, geminiReply, sttConfig, ttsVoice,
                 storeVars, streamVars,
                 chatVars, req, connected, submitted, nreq, jar, ndisc>>

\* line 193 resolves; lines 194-196
VoiceSynthesized(r, audio) ==
  /\ variant = "server"
  /\ pc[r] = "await_synthesize"
  /\ res' = [res EXCEPT ![r] =
               ResSend(@, 200, JsonBody([reply |-> geminiReply[r], audio |-> audio]))]
  /\ pc' = [pc EXCEPT ![r] = "done"]
  /\ UNCHANGED <<variant, runtime, clientVars, voiceVars, storeVars, streamVars, chatVars,
                 req, connected, submitted, upstream, nreq, jar, ndisc>>

\* line 193 rejects; lines 198-210
VoiceSynthesizeFails(r, err) ==
  /\ variant = "server"
  /\ pc[r] = "await_synthesize"
  /\ failure' = [failure EXCEPT ![r] =
                   Failure("synthesis", err.kind, err.code, err.message)]
  /\ res' = [res EXCEPT ![r] = VoiceErrorResponse(@, err)]
  /\ pc' = [pc EXCEPT ![r] = "done"]
  /\ UNCHANGED <<variant, runtime, clientVars, transcript, geminiReply, sttConfig, ttsVoice,
                 storeVars, streamVars,
                 chatVars, req, connected, submitted, upstream, nreq, jar, ndisc>>

NextServer ==
  \/ \E r \in Conns, msg \in Messages \cup {EmptyMessage} : ServerChat(r, msg)
  \/ \E r \in Conns, text \in Replies : ServerChatReplies(r, text)
  \/ \E r \in Conns, err \in GeminiErrors : ServerChatFails(r, err)
  \/ \E r \in Conns, hasFile \in BOOLEAN : Voice(r, hasFile)
  \/ \E r \in Conns, results \in Recognitions : VoiceRecognized(r, results)
  \/ \E r \in Conns, err \in CloudErrors : VoiceRecognizeFails(r, err)
  \/ \E r \in Conns, text \in Replies : VoiceGenerated(r, text)
  \/ \E r \in Conns, err \in GeminiErrors : VoiceGenerateFails(r, err)
  \/ \E r \in Conns, audio \in Audios : VoiceSynthesized(r, audio)
  \/ \E r \in Conns, err \in CloudErrors : VoiceSynthesizeFails(r, err)

---------------------------------------------------------------------------
(* src/unnamed/part_005: app.post('/voice') with a language hint           *)

\* req.body.language; "" stands for a request without the field
Languages == {"", "en-US", "fa-IR", "de-DE"}

\* geminiResult.response.text(), as words, blanks and blank lines ("\n\n")
LangReplies == { <<"a">>, <<" ", "a", "\n\n", "b", " ">> }

Whitespace == {" ", "\n", "\n\n"}

\* String.prototype.trim
RECURSIVE TrimStart(_)
TrimStart(text) ==
  IF text # <<>> /\ Head(text) \in Whitespace THEN TrimStart(Tail(text)) ELSE text

RECURSIVE TrimEnd(_)
TrimEnd(text) ==
  IF text # <<>> /\ Last(text) \in Whitespace
  THEN TrimEnd(SubSeq(text, 1, Len(text) - 1)) ELSE text

Trim(text) == TrimEnd(TrimStart(text))

\* text.split('\n\n')
RECURSIVE SplitParagraphs(_)
SplitParagraphs(text) ==
  IF \E i \in 1..Len(text) : text[i] = "\n\n"
  THEN LET i == CHOOSE k \in 1..Len(text) :
                  text[k] = "\n\n" /\ \A j \in 1..(k - 1) : text[j] # "\n\n"
       IN  <<SubSeq(text, 1, i - 1)>> \o SplitParagraphs(SubSeq(text, i + 1, Len(text)))
  ELSE <<text>>

\* lines 63-69: formatGeminiResponseForDisplay
FormatGeminiResponseForDisplay(text) ==
  IF text = <<>> THEN <<>>
  ELSE LET ps == SplitParagraphs(Trim(text))
       IN  Concat([i \in 1..Len(ps) |-> <<"<p>">> \o Trim(ps[i]) \o <<"</p>">>])

\* line 107: const langCode = language || 'en-US'
LangCode(language) == IF language = "" THEN "en-US" ELSE language

\* lines 113-117
LangSttConfig(langCode) == [encoding |-> "WEBM_OPUS", languageCode |-> langCode]

\* mutant of LangTtsVoice: the voice follows the language code
LangTtsVoiceOfCode(langCode) ==
  IF langCode = "fa-IR"
  THEN [languageCode |-> "fa-IR", ssmlGender |-> "NEUTRAL", name |-> "fa-IR-Standard-D"]
  ELSE [languageCode |-> langCode, ssmlGender |-> "NEUTRAL", name |-> "en-US-Standard-C"]

\* lines 143-152
LangTtsVoice(langCode) ==
  IF langCode = "fa-IR"
  THEN [languageCode |-> "fa-IR", ssmlGender |-> "NEUTRAL", name |-> "fa-IR-Standard-D"]
  ELSE [languageCode |-> "en-US", ssmlGender |-> "NEUTRAL", name |-> "en-US-Standard-C"]

\* line 129
LangNoTranscriptResponse(rs) ==
  ResSend(rs, 400, JsonBody([reply |->
    <<"<p>", "Could not understand the audio. Please try speaking clearer.", "</p>">>]))

\* lines 169-176: the response of the catch block
LangVoiceErrorResponse(rs, err) ==
  IF err.code = 7 \/ err.code = 10
  THEN ResSend(rs, 500, JsonBody([error |->
         <<"Authentication/Permission error with Google Cloud APIs.">>]))
  ELSE IF err.code = 3
  THEN ResSend(rs, 400, JsonBody([error |->
         <<"Invalid audio format or configuration sent to Speech-to-Text.">>]))
  ELSE IF Includes(err.message, "API key not valid")
  THEN ResSend(rs, 401, JsonBody([error |-> <<"Invalid Gemini API Key.">>]))
  ELSE ResSend(rs, 500,
               JsonBody([error |-> <<"Failed to process voice request: ", err.message>>]))

\* lines 101-124, up to the await
LangVoice(r, hasFile, language) ==
  LET id == nreq + 1
  IN  /\ variant = "lang"
      /\ Accepts(r)
      /\ nreq < MaxRequests
      /\ nreq' = id
      /\ req' = [req EXCEPT ![r] =
                   [client |-> "c1", cookie |-> NoCookie, message |-> EmptyMessage,
                    id |-> id, path |-> "/voice", file |-> hasFile,
                    language |-> language]]
      /\ connected' = [connected EXCEPT ![r] = TRUE]
      /\ transcript' = [transcript EXCEPT ![r] = <<>>]
      /\ geminiReply' = [geminiReply EXCEPT ![r] = <<>>]
      /\ failure' = [failure EXCEPT ![r] = NoFailure]
      /\ ttsVoice' = [ttsVoice EXCEPT ![r] = NoCall]
      /\ upstream' = [upstream EXCEPT ![r] = "none"]
      /\ submitted' = [submitted EXCEPT ![r] = <<>>]
      /\ IF ~hasFile
         THEN /\ res' = [res EXCEPT ![r] =
                    ResSend(FreshRes, 400,
                            JsonBody([error |-> <<"Audio file is missing or corrupted.">>]))]
              /\ pc' = [pc EXCEPT ![r] = "done"]
              /\ sttConfig' = [sttConfig EXCEPT ![r] = NoCall]
         ELSE /\ res' = [res EXCEPT ![r] = FreshRes]
              /\ pc' = [pc EXCEPT ![r] = "await_recognize"]
              /\ sttConfig' = [sttConfig EXCEPT ![r] = LangSttConfig(LangCode(language))]
      /\ UNCHANGED <<variant, runtime, clientVars, storeVars, streamVars, chatVars, jar, ndisc>>

\* line 121 resolves; lines 126-135, up to the await
LangVoiceRecognized(r, results) ==
  LET text == JoinLines(results)
  IN  /\ variant = "lang"
      /\ pc[r] = "await_recognize"
      /\ transcript' = [transcript EXCEPT ![r] = text]
      /\ IF NoTranscript(text)
         THEN /\ res' = [res EXCEPT ![r] = LangNoTranscriptResponse(@)]
              /\ pc' = [pc EXCEPT ![r] = "done"]
              /\ UNCHANGED <<upstream, submitted>>
         ELSE /\ pc' = [pc EXCEPT ![r] = "await_generate"]
              /\ upstream' = [upstream EXCEPT ![r] = "open"]
              /\ submitted' = [submitted EXCEPT ![r] =
                                 [history |-> <<>>, message |-> text]]
              /\ UNCHANGED res
      /\ UNCHANGED <<variant, runtime, clientVars, geminiReply, failure, sttConfig, ttsVoice,
                     storeVars, streamVars, chatVars, req, connected, nreq, jar, ndisc>>

\* a call of the handler rejects (lines 121, 135, 161) or the line after it
\* throws; lines 167-177
LangVoiceFails(r, stage, err) ==
  /\ variant = "lang"
  /\ failure' = [failure EXCEPT ![r] = Failure(stage, err.kind, err.code, err.message)]
  /\ res' = [res EXCEPT ![r] = LangVoiceErrorResponse(@, err)]
  /\ pc' = [pc EXCEPT ![r] = "done"]
  /\ upstream' = [upstream EXCEPT ![r] = IF stage = "completion" THEN "failed" ELSE @]
  /\ UNCHANGED <<variant, runtime, clientVars, transcript, geminiReply, sttConfig, ttsVoice,
                 storeVars, streamVars, chatVars, req, connected, submitted,
                 nreq, jar, ndisc>>

LangVoiceRecognizeFails(r, err) ==
  pc[r] = "await_recognize" /\ LangVoiceFails(r, "transcription", err)

\* line 135 resolves; lines 136-161, up to the await
LangVoiceGenerated(r, text) ==
  /\ variant = "lang"
  /\ pc[r] = "await_generate"
  /\ geminiReply' = [geminiReply EXCEPT ![r] = text]
  /\ ttsVoice' = [ttsVoice EXCEPT ![r] = LangTtsVoice(LangCode(req[r].language))]
  /\ pc' = [pc EXCEPT ![r] = "await_synthesize"]
  /\ upstream' = [upstream EXCEPT ![r] = "ended"]
  /\ UNCHANGED <<variant, runtime, clientVars, transcript, failure, sttConfig, storeVars, streamVars,
                 chatVars, req, res, connected, submitted, nreq, jar, ndisc>>

LangVoiceGenerateFails(r, err) ==
  pc[r] = "await_generate" /\ LangVoiceFails(r, "completion", err)

\* line 161 resolves; lines 162-165
LangVoiceSynthesized(r, audio) ==
  /\ variant = "lang"
  /\ pc[r] = "await_synthesize"
  /\ res' = [res EXCEPT ![r] =
               ResSend(@, 200, JsonBody([reply |-> FormatGeminiResponseForDisplay(geminiReply[r]),
                                         audio |-> audio]))]
  /\ pc' = [pc EXCEPT ![r] = "done"]
  /\ UNCHANGED <<variant, runtime, clientVars, voiceVars, storeVars, streamVars, chatVars,
                 req, connected, submitted, upstream, nreq, jar, ndisc>>

LangVoiceSynthesizeFails(r, err) ==
  pc[r] = "await_synthesize" /\ LangVoiceFails(r, "synthesis", err)

NextLang ==
  \/ \E r \in Conns, hasFile \in BOOLEAN, language \in Languages :
       LangVoice(r, hasFile, language)
  \/ \E r \in Conns, results \in Recognitions : LangVoiceRecognized(r, results)
  \/ \E r \in Conns, err \in CloudErrors : LangVoiceRecognizeFails(r, err)
  \/ \E r \in Conns, text \in LangReplies : LangVoiceGenerated(r, text)
  \/ \E r \in Conns, err \in GeminiErrors : LangVoiceGenerateFails(r, err)
  \/ \E r \in Conns, audio \in Audios : LangVoiceSynthesized(r, audio)
  \/ \E r \in Conns, err \in CloudErrors : LangVoiceSynthesizeFails(r, err)

---------------------------------------------------------------------------
(* src/client.js: the page's script.  Every handler runs to its next await *)
(* before another event is dispatched.                                     *)

Paths == {"/chat", "/voice"}

\* what the user may have in the text field: nothing, a blank, a word
InputValues == {<<>>, <<" ">>, <<"h">>}

\* lines 40-49: setUIState(enabled), as the fields it assigns
SetUIState(enabled) ==
  [userInput   |-> [value |-> <<>>, disabled |-> ~enabled,
                    placeholder |-> IF enabled THEN "Type your message..."
                                               ELSE "Processing..."],
   sendButton  |-> [disabled |-> ~enabled],
   voiceButton |-> [disabled |-> ~enabled]]

\* the three controls after setUIState(enabled); the value of the field stays
ControlsAfter(enabled, value) ==
  /\ userInput' = [SetUIState(enabled).userInput EXCEPT !.value = value]
  /\ sendButton' = SetUIState(enabled).sendButton
  /\ voiceButton' = SetUIState(enabled).voiceButton

\* fetches in flight
InFlightFetches == fetching["/chat"] + fetching["/voice"]

\* the run may issue one more fetch, beside those of the recordings stopped
MayFetch == nfetch + stopEvents < MaxFetches

\* fetch(path, ...) is issued
FetchIssued(path) ==
  /\ fetching' = [fetching EXCEPT ![path] = @ + 1]
  /\ nfetch' = nfetch + 1

\* the user edits the text field
TypeText(text) ==
  /\ variant = "client"
  /\ ~userInput.disabled
  /\ userInput.value # text
  /\ userInput' = [userInput EXCEPT !.value = text]
  /\ UNCHANGED <<variant, runtime, storeVars, httpVars, streamVars, chatVars, voiceVars,
                 sendButton, voiceButton, isRecording, mediaRecorder,
                 micRequests, stopEvents, fetching, nfetch>>

\* lines 54-74: a click on the send button or Enter in the field runs
\* sendMessage up to the await of fetch('/chat')
SendMessage(trigger) ==
  /\ variant = "client"
  /\ trigger = "click" => ~sendButton.disabled
  /\ trigger = "Enter" => ~userInput.disabled
  /\ Trim(userInput.value) # <<>>
  /\ MayFetch
  /\ ControlsAfter(FALSE, <<>>)
  /\ FetchIssued("/chat")
  /\ UNCHANGED <<variant, runtime, storeVars, httpVars, streamVars, chatVars, voiceVars,
                 isRecording, mediaRecorder, micRequests, stopEvents>>

\* lines 75-88: the fetch of sendMessage settles, with a reply, an error
\* status or a network error; finally re-enables the controls
ChatSettles ==
  /\ variant = "client"
  /\ fetching["/chat"] > 0
  /\ fetching' = [fetching EXCEPT !["/chat"] = @ - 1]
  /\ ControlsAfter(TRUE, userInput.value)
  /\ UNCHANGED <<variant, runtime, storeVars, httpVars, streamVars, chatVars, voiceVars,
                 isRecording, mediaRecorder, micRequests, stopEvents, nfetch>>

\* lines 93-97: a click on the voice button while not recording runs the
\* handler up to the await of getUserMedia
VoiceClickStart ==
  /\ variant = "client"
  /\ ~voiceButton.disabled
  /\ ~isRecording
  /\ micRequests < MaxMicRequests
  /\ micRequests' = micRequests + 1
  /\ UNCHANGED <<variant, runtime, storeVars, httpVars, streamVars, chatVars, voiceVars,
                 userInput, sendButton, voiceButton, isRecording, mediaRecorder,
                 stopEvents, fetching, nfetch>>

\* getUserMedia resolves; lines 98-154: the recorder starts and only the
\* voice button is enabled
MicGranted ==
  /\ variant = "client"
  /\ micRequests > 0
  /\ micRequests' = micRequests - 1
  /\ mediaRecorder' = "recording"
  /\ isRecording' = TRUE
  /\ userInput' = [value |-> userInput.value, disabled |-> TRUE,
                   placeholder |-> "Recording..."]
  /\ sendButton' = [disabled |-> TRUE]
  /\ voiceButton' = [disabled |-> FALSE]
  /\ UNCHANGED <<variant, runtime, storeVars, httpVars, streamVars, chatVars, voiceVars,
                 stopEvents, fetching, nfetch>>

\* getUserMedia rejects; lines 156-160
MicDenied ==
  /\ variant = "client"
  /\ micRequests > 0
  /\ micRequests' = micRequests - 1
  /\ ControlsAfter(TRUE, userInput.value)
  /\ UNCHANGED <<variant, runtime, storeVars, httpVars, streamVars, chatVars, voiceVars,
                 isRecording, mediaRecorder, stopEvents, fetching, nfetch>>

\* lines 161-167: a click on the voice button while recording; stop() queues
\* the recorder's stop event
VoiceClickStop ==
  /\ variant = "client"
  /\ ~voiceButton.disabled
  /\ isRecording
  /\ MayFetch
  /\ mediaRecorder' = "inactive"
  /\ isRecording' = FALSE
  /\ stopEvents' = stopEvents + 1
  /\ UNCHANGED <<variant, runtime, storeVars, httpVars, streamVars, chatVars, voiceVars,
                 userInput, sendButton, voiceButton, micRequests, fetching, nfetch>>

\* lines 106-123: the stop event is dispatched; onstop runs up to the await
\* of fetch('/voice')
RecorderStops ==
  /\ variant = "client"
  /\ stopEvents > 0
  /\ stopEvents' = stopEvents - 1
  /\ ControlsAfter(FALSE, userInput.value)
  /\ FetchIssued("/voice")
  /\ UNCHANGED <<variant, runtime, storeVars, httpVars, streamVars, chatVars, voiceVars,
                 isRecording, mediaRecorder, micRequests>>

\* lines 124-141: the fetch of onstop settles; finally re-enables the controls
VoiceSettles ==
  /\ variant = "client"
  /\ fetching["/voice"] > 0
  /\ fetching' = [fetching EXCEPT !["/voice"] = @ - 1]
  /\ ControlsAfter(TRUE, userInput.value)
  /\ UNCHANGED <<variant, runtime, storeVars, httpVars, streamVars, chatVars, voiceVars,
                 isRecording, mediaRecorder, micRequests, stopEvents, nfetch>>

NextClient ==
  \/ \E text \in InputValues : TypeText(text)
  \/ \E trigger \in {"click", "Enter"} : SendMessage(trigger)
  \/ ChatSettles
  \/ VoiceClickStart
  \/ MicGranted
  \/ MicDenied
  \/ VoiceClickStop
  \/ RecorderStops
  \/ VoiceSettles

---------------------------------------------------------------------------
(* Initial state: the state after the module of the running program loaded *)

\* everything but the cookies of the clients and the transcripts
InitProcess ==
  /\ variant \in {"store", "identity", "stream", "chat", "server", "lang", "client"}
  /\ runtime \in Outcomes
  /\ histories = <<>>
  /\ appended = [sid \in SessionIds |-> <<>>]
  /\ pc = [r \in Conns |-> "idle"]
  /\ req = [r \in Conns |-> NoReq]
  /\ res = [r \in Conns |-> FreshRes]
  /\ connected = [r \in Conns |-> FALSE]
  /\ submitted = [r \in Conns |-> <<>>]
  /\ upstream = [r \in Conns |-> "none"]
  /\ nreq = 0
  /\ ndisc = 0
  /\ sessionId = [r \in Conns |-> NoCookie]
  /\ fullResponse = [r \in Conns |-> <<>>]
  /\ received = [r \in Conns |-> <<>>]
  /\ nchunks = 0
  /\ GEMINI_API_KEY \in BOOLEAN
  /\ transcript = [r \in Conns |-> <<>>]
  /\ geminiReply = [r \in Conns |-> <<>>]
  /\ failure = [r \in Conns |-> NoFailure]
  /\ sttConfig = [r \in Conns |-> NoCall]
  /\ ttsVoice = [r \in Conns |-> NoCall]
  /\ userInput = [SetUIState(TRUE).userInput EXCEPT !.value = <<>>]
  /\ sendButton = SetUIState(TRUE).sendButton
  /\ voiceButton = SetUIState(TRUE).voiceButton
  /\ isRecording = FALSE
  /\ mediaRecorder = "undefined"
  /\ micRequests = 0
  /\ stopEvents = 0
  /\ fetching = [p \in Paths |-> 0]
  /\ nfetch = 0

InitAll ==
  /\ InitProcess
  /\ jar \in {[c \in Clients |-> NoCookie], [c \in Clients |-> IF c = "c2" THEN StaleToken ELSE NoCookie]}
  /\ sessions = <<>>
  /\ uuid = 0
  /\ conversationHistory = <<>>

InitStore == InitAll /\ variant = "store" /\ jar = [c \in Clients |-> NoCookie]
                     /\ GEMINI_API_KEY /\ runtime = "exit"

SpecStore == InitStore /\ [][NextStore]_vars

InitStream == InitAll /\ variant = "stream" /\ GEMINI_API_KEY

SpecStream == InitStream /\ [][NextStream]_vars

InitChat == InitAll /\ variant = "chat" /\ runtime = "exit"
                    /\ jar = [c \in Clients |-> NoCookie]

SpecChat == InitChat /\ [][NextChat]_vars

InitIdentity == InitAll /\ variant = "identity" /\ GEMINI_API_KEY /\ runtime = "exit"

\* session resolution: getSessionId of chatHistory.js, lines 24-30 of part_003
InitResolution == InitIdentity \/ InitStream

NextResolution == NextIdentity \/ NextStream

SpecResolution == InitResolution /\ [][NextResolution]_vars

InitServer == InitAll /\ variant = "server" /\ GEMINI_API_KEY /\ runtime = "exit"
                      /\ jar = [c \in Clients |-> NoCookie]

SpecServer == InitServer /\ [][NextServer]_vars

InitLang == InitAll /\ variant = "lang" /\ GEMINI_API_KEY /\ runtime = "exit"
                    /\ jar = [c \in Clients |-> NoCookie]

SpecLang == InitLang /\ [][NextLang]_vars

\* the servers with a /voice handler: server.js and part_005
InitVoice == InitServer \/ InitLang

NextVoice == NextServer \/ NextLang

SpecVoice == InitVoice /\ [][NextVoice]_vars

\* the streaming handler with requests that have no message among its inputs
NextStreamAnyInput ==
  \/ NextStream
  \/ \E r \in Conns, c \in Clients : StreamChat(r, c, EmptyMessage)

\* the /chat handlers of part_003 and of server.js, any message
InitTextChat == InitStream \/ InitServer

NextTextChat == NextStreamAnyInput \/ NextServer

SpecTextChat == InitTextChat /\ [][NextTextChat]_vars

\* the two /chat handlers that keep a history
InitHandlers == InitStream \/ InitChat

NextHandlers == NextStream \/ NextChat

SpecHandlers == InitHandlers /\ [][NextHandlers]_vars

\* the await points of the handlers: lines 38 and 46 of part_003, lines 132,
\* 163, 182 and 193 of server.js
Awaiting(r) ==
  pc[r] \in {"await_send", "streaming", "await_generate", "await_recognize",
             "await_synthesize"}

\* the upstream call a handler awaits never settles.  No handler sets a timer,
\* passes a timeout or an abort signal to the call, or listens for the close
\* of the connection, so nothing of the request runs after this.
UpstreamNeverReturns(r) ==
  /\ variant \in {"stream", "server"}
  /\ Awaiting(r)
  /\ pc' = [pc EXCEPT ![r] = "hung"]
  /\ UNCHANGED <<variant, runtime, clientVars, voiceVars, storeVars, streamVars, chatVars,
                 req, res, connected, submitted, upstream, nreq, jar, ndisc>>

\* part_003 and server.js with upstream calls that may never return.  The
\* event loop runs every continuation whose call has settled and serves every
\* request that arrives: weak fairness of the whole next-state relation.
InitHangs == InitStream \/ InitServer

NextHangs ==
  \/ NextStream
  \/ NextServer
  \/ \E r \in Conns : UpstreamNeverReturns(r)

SpecHangs == InitHangs /\ [][NextHangs]_vars /\ WF_vars(NextHangs)

\* a session of part_003 after n exchanges that were answered
RECURSIVE StreamAfterExchanges(_)
StreamAfterExchanges(n) ==
  IF n = 0 THEN <<>>
  ELSE HistoryAfterEnd(PushUser(StreamAfterExchanges(n - 1), <<"h">>, 0, "c1"),
                       <<1>>, 0, "c1")

\* conversationHistory of part_006 after n exchanges that were answered
RECURSIVE ChatAfterExchanges(_)
ChatAfterExchanges(n) ==
  IF n = 0 THEN <<>>
  ELSE HistoryAfterReply(HistoryAfterUser(ChatAfterExchanges(n - 1), <<"h">>, 0, "c1"),
                         <<1>>, 0, "c1")

\* the handlers that keep a history, some time into a conversation: client
\* c1 has had PriorExchanges exchanges answered
InitStreamLong ==
  /\ InitProcess /\ variant = "stream" /\ GEMINI_API_KEY
  /\ jar = [c \in Clients |-> IF c = "c1" THEN 1 ELSE StaleToken]
  /\ sessions = (1 :> StreamAfterExchanges(PriorExchanges))
  /\ uuid = 1
  /\ conversationHistory = <<>>

InitChatLong ==
  /\ InitProcess /\ variant = "chat" /\ GEMINI_API_KEY /\ runtime = "exit"
  /\ jar = [c \in Clients |-> NoCookie]
  /\ sessions = <<>>
  /\ uuid = 0
  /\ conversationHistory = ChatAfterExchanges(PriorExchanges)

InitLongChats == InitStreamLong \/ InitChatLong

SpecLongChats == InitLongChats /\ [][NextHandlers]_vars

InitClient == InitAll /\ variant = "client" /\ jar = [c \in Clients |-> NoCookie]
                      /\ GEMINI_API_KEY /\ runtime = "exit"
SpecClient == InitClient /\ [][NextClient]_vars

Init == InitStore \/ InitIdentity \/ InitStream \/ InitChat \/ InitServer \/ InitLang
          \/ InitClient

Next == NextStore \/ NextIdentity \/ NextStream \/ NextChat \/ NextServer \/ NextLang
          \/ NextClient

Spec == Init /\ [][Next]_vars

---------------------------------------------------------------------------
(* Properties *)

\* the transcript the request on connection r works on
Transcript(r) ==
  IF variant = "stream" THEN sessions[sessionId[r]] ELSE conversationHistory

\* every transcript a handler keeps
Transcripts ==
  IF variant = "stream" THEN {sessions[sid] : sid \in DOMAIN sessions}
  ELSE {conversationHistory}

\* the text of a turn, whichever shape the handler gives it
TextOf(t) == IF variant = "stream" THEN t.content ELSE t.parts[1].text

InSeq(x, s) == \E i \in 1..Len(s) : s[i] = x

\* the model turns request id has in the transcripts
ModelTurnsOf(id) ==
  {<<h, i>> \in {<<h, i>> \in Transcripts \X (1..(2 * MaxRequests)) : i <= Len(h)} :
      h[i].role = "model" /\ h[i].req = id}

\* the events the non-empty chunks of a stream make
EventsOf(chunks) ==
  LET kept == SelectSeq(chunks, LAMBDA text : text # <<>>)
  IN  [i \in 1..Len(kept) |-> SseEvent(kept[i])]

\* C1: after N calls of addToHistory on a session id the transcript holds the
\* last min(N, 20) turns appended, in the order of the calls; once more than
\* 20 were appended the first of them is gone.
C1_FifoLaw ==
  \A sid \in SessionIds :
    LET log == appended[sid]
        N   == Len(log)
        k   == Min(N, HistoryLimit)
    IN  IF sid \in DOMAIN histories
        THEN /\ Len(histories[sid]) = k
             /\ histories[sid] = SubSeq(log, N - k + 1, N)
             /\ N > HistoryLimit => ~InSeq(log[1], histories[sid])
        ELSE N = 0

\* 21 user/model pairs were appended to s1
C1_Witness ==
  /\ Len(appended["s1"]) = 2 * (HistoryLimit + 1)
  /\ OffScript(appended["s1"]) = 0
  /\ Len(histories["s1"]) = HistoryLimit
  /\ histories["s1"][1] = Turn("user", 2 * (HistoryLimit + 1) - HistoryLimit + 1)

\* C2: while the stream of a request has not signalled its end, no transcript
\* holds a model turn of that request.
C2_NoPartialCommit ==
  \A r \in Conns : upstream[r] = "open" => ModelTurnsOf(req[r].id) = {}

\* fragments are arriving: two chunks received, the buffer is not empty
C2_Witness ==
  \E r \in Conns :
    /\ variant = "stream" /\ pc[r] = "streaming"
    /\ Len(received[r]) = 2 /\ fullResponse[r] # <<>>

\* C3: the step in which the stream of a request ends appends one model turn,
\* the concatenation of the chunks received in their order, to the transcript
\* of the request's session, changes no other transcript, writes no further
\* event and ends the response.
C3_CompleteCommit ==
  [][\A r \in Conns :
       (upstream[r] = "open" /\ upstream'[r] = "ended") =>
          /\ sessions' = [sessions EXCEPT ![sessionId[r]] =
                Append(@, Msg("model", Concat(received[r]), req[r].id, req[r].client))]
          /\ res'[r].finished
          /\ res'[r].writes = res[r].writes]_vars

\* a stream of two non-empty chunks has ended and its reply is the last turn
C3_Witness ==
  \E r \in Conns :
    /\ variant = "stream" /\ upstream[r] = "ended"
    /\ received[r] = << <<1>>, <<2>> >>
    /\ Last(sessions[sessionId[r]]) = Msg("model", <<1, 2>>, req[r].id, req[r].client)
    /\ res[r].finished

\* C4: when the completion call of a request has failed, the transcript, the
\* turns of other requests left out, is the transcript before the request
\* plus the user turn of the request; the request has no model turn in it.
C4_FailureKeepsUserTurn ==
  \A r \in Conns :
    upstream[r] = "failed" =>
      LET h      == Transcript(r)
          id     == req[r].id
          before == submitted[r].history
          mine(t) == t.req = id
          kept(t) == t.req = id \/ InSeq(t, before)
      IN  /\ SelectSeq(h, kept) = before
          /\ SelectSeq(h, mine) = <<Last(before)>>
          /\ Last(before).role = "user"
          /\ TextOf(Last(before)) = req[r].message
          /\ ModelTurnsOf(id) = {}

\* the second request of a session has failed after the first was answered
C4_Witness ==
  \E r \in Conns :
    /\ variant = "stream" /\ upstream[r] = "failed"
    /\ Len(Transcript(r)) = 3
    /\ Transcript(r)[2].role = "model"
    /\ Transcript(r)[3] = Msg("user", req[r].message, req[r].id, req[r].client)

\* C5: a request whose client went away before the stream ended has no model
\* turn in a transcript.
C5_DisconnectNeverCommits ==
  \A r \in Conns :
    (variant = "stream" /\ upstream[r] \in {"open", "ended"} /\ ~connected[r]) =>
       ModelTurnsOf(req[r].id) = {}

\* C6: when the stream has thrown after an event was written, the events
\* written are those of the chunks received before and no transcript holds a
\* model turn of the request.
C6_ErrorMidStream ==
  \A r \in Conns :
    (variant = "stream" /\ upstream[r] = "failed" /\ Len(res[r].writes) >= 1) =>
       /\ ModelTurnsOf(req[r].id) = {}
       /\ res[r].writes = EventsOf(received[r])
       /\ pc[r] \notin {"await_send", "streaming"}

\* the stream threw after one event
C6_Witness ==
  \E r \in Conns :
    /\ variant = "stream" /\ upstream[r] = "failed"
    /\ Len(res[r].writes) = 1 /\ fullResponse[r] # <<>>

\* C7: when the stream has thrown after an event was written, the handler has
\* ended the response.
C7_ErrorSurfaced ==
  \A r \in Conns :
    (variant = "stream" /\ upstream[r] = "failed" /\ Len(res[r].writes) >= 1) =>
       /\ res[r].finished
       /\ pc[r] = "done"

\* C8 as stated: one event for every chunk received, in their order.
C8_OneEventPerChunk ==
  \A r \in Conns :
    variant = "stream" =>
      res[r].writes = [i \in 1..Len(received[r]) |-> SseEvent(received[r][i])]

\* C8 amended: one event for every chunk received whose text is not empty,
\* carrying that text, in their order; a chunk of empty text makes no event.
C8_OneEventPerNonEmptyChunk ==
  \A r \in Conns : variant = "stream" => res[r].writes = EventsOf(received[r])

\* an empty chunk and then a non-empty one were received
C8_Witness ==
  \E r \in Conns :
    /\ variant = "stream"
    /\ received[r] = << <<>>, <<2>> >>
    /\ res[r].writes = <<SseEvent(<<2>>)>>

\* C9: the user turns of two requests in flight are never adjacent in a
\* transcript, and every model turn comes right after the user turn of its
\* request.
C9_NoInterleaving ==
  \A h \in Transcripts :
    \A i \in 1..Len(h) :
      /\ h[i].role = "model" =>
           i > 1 /\ h[i - 1].role = "user" /\ h[i - 1].req = h[i].req
      /\ (i > 1 /\ h[i].role = "user" /\ h[i - 1].role = "user") =>
           ~\E r1, r2 \in Conns :
              /\ upstream[r1] = "open" /\ upstream[r2] = "open"
              /\ req[r1].id = h[i - 1].req /\ req[r2].id = h[i].req

\* C10: the history handed to the completion API for a request holds only
\* turns of requests of the same client.
C10_OwnTurnsOnly ==
  \A r \in Conns :
    (variant \in {"stream", "chat"} /\ upstream[r] # "none") =>
       \A i \in 1..Len(submitted[r].history) :
          submitted[r].history[i].client = req[r].client

\* C11: every request that bears a session token finds a transcript for that
\* token: the first access to the token has made an empty one and later
\* accesses have kept it.
C11_TranscriptForEveryToken ==
  \A r \in Conns :
    (variant = "stream" /\ req[r].id > 0) => sessionId[r] \in DOMAIN sessions

\* the request the step accepts on connection r
Accepted(r) == nreq' = nreq + 1 /\ req'[r].id = nreq'

\* C12: a request that carries a session token in its cookie is resolved to
\* that token; resolving it issues no new token and sets no cookie on the
\* response, and the response never gets one later.
C12_TokenReused ==
  [][\A r \in Conns :
       /\ (Accepted(r) /\ req'[r].cookie # NoCookie) =>
             /\ sessionId'[r] = req'[r].cookie
             /\ uuid' = uuid
             /\ res'[r].cookie = NoCookie
       /\ (~Accepted(r) /\ req[r].cookie # NoCookie) =>
             /\ sessionId'[r] = sessionId[r]
             /\ res'[r].cookie = NoCookie]_vars

\* the second request of a client carried the token the first was given
C12_Witness ==
  \E r \in Conns :
    /\ req[r].id = 2 /\ req[r].cookie = 1 /\ sessionId[r] = 1
    /\ uuid = 1 /\ res[r].cookie = NoCookie /\ res[r].finished

\* C13: a cookie that session resolution sets on a response is HTTP-only and
\* has a lifetime of 24 hours.
C13_CookieBounded ==
  \A r \in Conns :
    res[r].cookie # NoCookie =>
      /\ res[r].cookieOptions.httpOnly
      /\ res[r].cookieOptions.maxAge = DayMs

\* whether the request on connection r is a /chat request
IsChat(r) == IF variant \in {"server", "lang"} THEN req[r].path = "/chat" ELSE TRUE

\* whether the request on connection r is a /voice request
IsVoice(r) == variant \in {"server", "lang"} /\ req[r].id > 0 /\ req[r].path = "/voice"

\* C14: a /chat request whose message is empty or absent is answered 400,
\* no transcript holds a turn of it and no completion call was made for it.
C14_EmptyRejected ==
  \A r \in Conns :
    (variant \in {"stream", "server"} /\ req[r].id > 0 /\ IsChat(r)
       /\ req[r].message = EmptyMessage) =>
      /\ res[r].statusCode = 400
      /\ res[r].finished
      /\ upstream[r] = "none"
      /\ \A h \in Transcripts : \A i \in 1..Len(h) : h[i].req # req[r].id

\* the status the error taxonomy gives a failure of the completion call
TaxonomyStatus(kind) ==
  CASE kind = "auth" -> 401
    [] kind = "throttled" -> 429
    [] OTHER -> 500

\* C15: a failed completion call is answered 401 when it is an authentication
\* failure, 429 when it is a quota failure and 500 otherwise.
C15_FailureStatus ==
  \A r \in Conns :
    (variant \in {"server", "lang"} /\ failure[r].stage = "completion") =>
      res[r].statusCode = TaxonomyStatus(failure[r].kind)

\* C16: two requests to the same endpoint whose upstream call of the same
\* stage failed with the same kind of failure get the same status and body.
C16_ResponseByKindOnly ==
  \A r1, r2 \in Conns :
    (/\ variant \in {"server", "lang"}
     /\ failure[r1].stage # "none"
     /\ failure[r1].stage = failure[r2].stage
     /\ failure[r1].kind = failure[r2].kind
     /\ req[r1].path = req[r2].path) =>
      /\ res[r1].statusCode = res[r2].statusCode
      /\ res[r1].body = res[r2].body

\* C17: a voice request whose synthesis failed after transcription and
\* completion succeeded is answered 200 with the reply text.
C17_SynthesisFailureDegrades ==
  \A r \in Conns :
    (IsVoice(r) /\ failure[r].stage = "synthesis") =>
      /\ res[r].statusCode = 200
      /\ "reply" \in DOMAIN res[r].body.json
      /\ res[r].body.json.reply = geminiReply[r]
      /\ geminiReply[r] # <<>>

\* the keys of a JSON body
Shape(rs) == IF rs.body.kind = "json" THEN DOMAIN rs.body.json ELSE {}

Distinguishable(a, b) == a.statusCode # b.statusCode \/ Shape(a) # Shape(b)

\* the answer of the catch block of the /voice handler that runs
CatchResponse(err) ==
  IF variant = "lang" THEN LangVoiceErrorResponse(FreshRes, err)
  ELSE VoiceErrorResponse(FreshRes, err)

\* the voice request on connection r was answered for audio without
\* recognized text
NoSpeech(r) ==
  /\ IsVoice(r) /\ req[r].file /\ pc[r] = "done"
  /\ failure[r].stage = "none" /\ transcript[r] = <<>>

\* C18: the answer to audio without recognized text differs, in its status or
\* in the keys of its body, from the answer the voice handler gives to every
\* upstream failure.
C18_NoSpeechDistinguishable ==
  \A r \in Conns :
    NoSpeech(r) =>
      /\ res[r].finished
      /\ \A err \in CloudErrors \cup GeminiErrors :
           Distinguishable(res[r], CatchResponse(err))

\* one request was answered for no speech, another for an invalid argument:
\* both 400, bodies of different keys
C18_Witness ==
  \E r, q \in Conns :
    /\ NoSpeech(r) /\ res[r].statusCode = 400
    /\ IsVoice(q) /\ failure[q].code = 3 /\ res[q].statusCode = 400
    /\ Shape(res[r]) = {"reply"} /\ Shape(res[q]) = {"error"}

\* C19: the step in which the transcription of a voice request returns no
\* text, or fails, ends the request, changes no transcript and makes no
\* completion call.
C19_NoSpeechLeavesTranscripts ==
  [][\A r \in Conns :
       (/\ variant \in {"server", "lang"}
        /\ pc[r] = "await_recognize" /\ pc'[r] # "await_recognize"
        /\ transcript'[r] = <<>>) =>
          /\ UNCHANGED <<histories, sessions, conversationHistory>>
          /\ pc'[r] = "done"
          /\ upstream'[r] = "none"]_vars

\* one request ended for no speech and another for a failed transcription
C19_Witness ==
  \E r, q \in Conns :
    /\ NoSpeech(r)
    /\ IsVoice(q) /\ failure[q].stage = "transcription" /\ pc[q] = "done"
    /\ upstream[r] = "none" /\ upstream[q] = "none"

\* C20: the completion call of a voice request is handed the session
\* transcript, whose last turn is the user turn of the recognized text.
C20_VoiceKeepsHistory ==
  \A r \in Conns :
    (IsVoice(r) /\ upstream[r] # "none") =>
      /\ submitted[r].history # <<>>
      /\ Last(submitted[r].history).role = "user"
      /\ TextOf(Last(submitted[r].history)) = transcript[r]

\* C21: in the /voice handler with a language hint, a request without the
\* hint is transcribed as en-US and any other in its hint's language; the
\* voice of the synthesis is the fa-IR voice when the hint is fa-IR and the
\* en-US voice for every other hint and for none.
C21_LanguageMapping ==
  \A r \in Conns :
    (variant = "lang" /\ req[r].id > 0 /\ req[r].file) =>
      LET hint == req[r].language
      IN  /\ sttConfig[r].languageCode = (IF hint = "" THEN "en-US" ELSE hint)
          /\ ttsVoice[r] # NoCall =>
               /\ (hint = "fa-IR") <=> (ttsVoice[r].name = "fa-IR-Standard-D")
               /\ (hint = "fa-IR") => ttsVoice[r].languageCode = "fa-IR"
               /\ (hint # "fa-IR") =>
                    /\ ttsVoice[r].name = "en-US-Standard-C"
                    /\ ttsVoice[r].languageCode = "en-US"

\* two requests reached the synthesis: one with a hint the table does not
\* have, one with fa-IR
C21_Witness ==
  \E r, q \in Conns :
    /\ variant = "lang"
    /\ pc[r] = "await_synthesize" /\ req[r].language = "de-DE"
    /\ sttConfig[r].languageCode = "de-DE" /\ ttsVoice[r].languageCode = "en-US"
    /\ pc[q] = "done" /\ res[q].statusCode = 200 /\ req[q].language = "fa-IR"
    /\ ttsVoice[q] # NoCall /\ ttsVoice[q].name = "fa-IR-Standard-D"

\* C22: no transcript a /chat handler keeps, and none it hands to the
\* completion API, holds more than 20 turns.
C22_TranscriptBounded ==
  /\ \A h \in Transcripts : Len(h) <= HistoryLimit
  /\ \A r \in Conns :
       (variant \in {"stream", "chat"} /\ upstream[r] # "none") =>
          Len(submitted[r].history) <= HistoryLimit

\* C23: a request whose upstream call never returns is answered all the same
\* (the call is cut off and the handler sends a terminal response).
C23_HungCallAnswered ==
  \A r \in Conns : (pc[r] = "hung") ~> res[r].finished

\* the stages of the voice pipeline that were invoked for the request on
\* connection r, read from what the calls were handed
SttInvoked(r)        == sttConfig[r] # NoCall
CompletionInvoked(r) == upstream[r] # "none"
TtsInvoked(r)        == ttsVoice[r] # NoCall

\* a later stage was invoked only after the earlier one succeeded
StagesOrdered(r) ==
  /\ CompletionInvoked(r) =>
       /\ SttInvoked(r) /\ transcript[r] # <<>>
       /\ failure[r].stage # "transcription"
       /\ submitted[r].message = transcript[r]
  /\ TtsInvoked(r) =>
       /\ upstream[r] = "ended"
       /\ failure[r].stage \notin {"transcription", "completion"}
  /\ failure[r].stage = "transcription" => ~CompletionInvoked(r) /\ ~TtsInvoked(r)
  /\ failure[r].stage = "completion" => ~TtsInvoked(r)
  /\ NoSpeech(r) => ~CompletionInvoked(r) /\ ~TtsInvoked(r)

\* within one request no stage is invoked a second time
StagesOnce(r) ==
  (req[r].id > 0 /\ req'[r].id = req[r].id) =>
    /\ SttInvoked(r) => sttConfig'[r] = sttConfig[r]
    /\ CompletionInvoked(r) =>
         /\ submitted'[r] = submitted[r]
         /\ upstream[r] # "open" => upstream'[r] = upstream[r]
         /\ upstream'[r] # "none"
    /\ TtsInvoked(r) => ttsVoice'[r] = ttsVoice[r]

\* C24: in the voice handlers the completion is invoked only after the
\* transcription returned text, the synthesis only after the completion
\* succeeded, a failure or an empty result at one stage leaves the later
\* stages uninvoked, and no stage is invoked twice for one request.
C24_StagesInOrder ==
  /\ [](\A r \in Conns : IsVoice(r) => StagesOrdered(r))
  /\ [][\A r \in Conns : IsVoice(r) => StagesOnce(r)]_vars

\* one request went through the three stages and was answered, another
\* stopped after a transcription without text
C24_Witness ==
  \E r, q \in Conns :
    /\ IsVoice(r) /\ pc[r] = "done" /\ res[r].statusCode = 200
    /\ SttInvoked(r) /\ CompletionInvoked(r) /\ TtsInvoked(r)
    /\ NoSpeech(q) /\ SttInvoked(q) /\ ~CompletionInvoked(q)

\* how many times the user message of the request on connection r is in
\* what the completion call receives: its turns in the history handed to
\* startChat, and the message handed to sendMessage / sendMessageStream
TimesSubmitted(r) ==
  LET history == submitted[r].history
  IN  Cardinality({i \in 1..Len(history) :
                     history[i].role = "user" /\ history[i].req = req[r].id}) + 1

\* C25: the completion call of a history-keeping /chat handler receives the
\* new user message exactly once.
C25_MessageSubmittedOnce ==
  \A r \in Conns :
    (variant \in {"stream", "chat"} /\ upstream[r] # "none") =>
       /\ submitted[r].message = req[r].message
       /\ TimesSubmitted(r) = 1

\* C26: a /chat request whose cookie names a token the store has no
\* transcript for is served on a fresh transcript: the completion is called
\* with a history that holds the request's user turn alone, and the server
\* goes on serving.
C26_UnknownTokenServed ==
  \A r \in Conns :
    (variant = "stream" /\ req[r].id > 0 /\ req[r].cookie = StaleToken) =>
       /\ pc[r] # "reset"
       /\ upstream[r] # "none"
       /\ Len(submitted[r].history) = 1
       /\ ~(res[r].finished /\ res[r].statusCode = 500)

\* the handler of the request on connection r has run to its end, or was
\* left by an exception
HandlerOver(r) == req[r].id > 0 /\ pc[r] # "idle" /\ ~Awaiting(r) /\ pc[r] # "hung"

\* C27: every /chat and /voice handler that is over has sent one terminal
\* response: the response is finished, and no status or body was set once
\* the headers of a stream were out.
C27_OneTerminalResponse ==
  \A r \in Conns :
    HandlerOver(r) =>
       /\ res[r].finished
       /\ res[r].writes # <<>> => res[r].statusCode = 200 /\ res[r].body.kind = "none"

\* C28: the page never has two requests in flight.
C28_OneRequestInFlight ==
  variant = "client" => InFlightFetches <= 1

\* C29: a transcript whose turns were appended in strict user/model
\* alternation, a user turn first, begins with a user turn.
C29_HeadIsUserTurn ==
  \A sid \in SessionIds :
    (/\ sid \in DOMAIN histories
     /\ OffScript(appended[sid]) = 0
     /\ histories[sid] # <<>>) =>
        Head(histories[sid]).role = "user"

\* the answer of the /chat handler to a request it cannot serve for lack of
\* the key
IsConfigError(rs) ==
  /\ rs.finished /\ rs.statusCode = 500
  /\ rs.body = JsonBody([error |-> <<"Server configuration error: Gemini API key missing.">>])

\* C30: the step that accepts a /chat request while the API key is unset
\* answers it with the 500 configuration error, makes no completion call for
\* it and leaves the conversation history as it was.
C30_KeyUnsetRejected ==
  [][\A r \in Conns :
       (variant = "chat" /\ ~GEMINI_API_KEY /\ Accepted(r)) =>
          /\ IsConfigError(res'[r])
          /\ pc'[r] = "done"
          /\ upstream'[r] = "none" /\ submitted'[r] = <<>>
          /\ conversationHistory' = conversationHistory]_vars

\* the second request of a run without the key was answered with the
\* configuration error as well, and nothing was stored
C30_Witness ==
  /\ variant = "chat" /\ ~GEMINI_API_KEY
  /\ \E r \in Conns :
       req[r].id = 2 /\ pc[r] = "done" /\ IsConfigError(res[r]) /\ upstream[r] = "none"
  /\ conversationHistory = <<>>

===========================================================================
